---------------------------- MODULE Spec2Model ----------------------------
(***************************************************************************)
(* Model of src/main.py: the /analyze-speech and /get-trends handlers of   *)
(* the FastAPI application, the scoring arithmetic of analyze_speech, the  *)
(* feature extraction of analyze_speech_patterns and the two files the     *)
(* handlers share (user_data.json and temp_<user_id>.wav).                  *)
(*                                                                         *)
(* Numbers.  Python floats are modelled as exact rationals on a grid:      *)
(*   - a raw stress value is an integer count of 1/50 of a point           *)
(*     (ScoreUnit units make one point), so emotion['score'] * 100 is the  *)
(*     score counted in 1/5000;                                            *)
(*   - a value rounded by round(x, 1) is an integer count of tenths;       *)
(*   - pitch_variation is counted in tenths, duration in tenths of a       *)
(*     second.                                                             *)
(* The handlers are coroutines of one event loop: a handler runs without   *)
(* interruption between two awaits, and analyze_speech has exactly one     *)
(* await (line 74), get_trends none.                                       *)
(***************************************************************************)
EXTENDS Integers, Sequences, FiniteSets, TLC

VARIABLES
    data_file_exists,  \* os.path.exists("user_data.json")
    data,              \* the dict stored in user_data.json: user_id -> list of analyses
    temp_path,         \* directory entry temp_<user_id>.wav: inode number, 0 when absent
    inodes,            \* inode number -> bytes of the file
    pc,                \* per request: position of the analyze_speech coroutine
    user_id,           \* per request: the user_id parameter
    audio,             \* per request: the uploaded bytes (audio.read())
    f,                 \* per request: inode of the handle opened at line 73
    analysed,          \* per request: the bytes the pipeline read from audio_path
    response,          \* per request: what the handler returned or raised
    clock,             \* datetime.now()
    trend_result,      \* per user: the last response of get_trends
    score_in,          \* inputs of one scoring run (collaborator outputs)
    score_out          \* result of one scoring run

vars == <<data_file_exists, data, temp_path, inodes, pc, user_id, audio, f,
          analysed, response, clock, trend_result, score_in, score_out>>

--------------------------------------------------------------------------
(* Bounds of the model *)

NumRequests == 2
MaxEmotions == 1
MaxHistory == 6

(* Program constants *)

PauseWeight == 5
PauseCap == 40
MonotoneThreshold == 50
MonotoneBonus == 30
ScoreCap == 100
FrequentPauses == 15
MinWords == 30
HighStress == 70
TopEmotions == 3
RecentWindow == 5
TrendWindow == 3

\* Resolution of emotion['score'] * 100 and of every raw stress value: one
\* point is ScoreUnit units, so a tenth of a point is ScoreUnit \div 10 units
\* (an odd number: no raw value lies exactly between two tenths).
ScoreUnit == 50

Users == {"u1", "u2"}
Requests == 1..NumRequests
\* lengths of the uploaded audio, in bytes
AudioLens == {1, 2}

--------------------------------------------------------------------------
(* Arithmetic helpers *)

Min(a, b) == IF a <= b THEN a ELSE b

\* round(): the integer nearest to num/den (den > 0), an exact tie going to
\* the even neighbour.
RoundHalfEven(num, den) ==
    LET q == num \div den
        r == num % den
    IN  IF 2 * r < den THEN q
        ELSE IF 2 * r > den THEN q + 1
        ELSE IF q % 2 = 0 THEN q ELSE q + 1

RECURSIVE SumOver(_, _)
SumOver(s, field) ==
    IF s = <<>> THEN 0 ELSE s[1][field] + SumOver(Tail(s), field)

\* s[:n]
FirstN(s, n) ==
    IF Len(s) <= n THEN s ELSE SubSeq(s, 1, n)

\* s[:n] where the code takes s[-n:]
TakeFromFront(s, n) ==
    IF Len(s) <= n THEN s ELSE SubSeq(s, 1, n)

\* s[-n:]
LastN(s, n) ==
    IF Len(s) <= n THEN s ELSE SubSeq(s, Len(s) - n + 1, Len(s))

\* len(text.split()): the number of maximal runs of non-blank characters
WordCount(text) ==
    Cardinality({i \in 1..Len(text) :
                    /\ text[i] # " "
                    /\ (i = 1 \/ text[i-1] = " ")})

--------------------------------------------------------------------------
(* Collaborator outputs.  The models and librosa are outside the           *)
(* repository: what they return is an input of the handler.                *)

\* n words separated by single blanks
Words(n) == [i \in 1..(2 * n - 1) |-> IF i % 2 = 1 THEN "a" ELSE " "]

\* transcriber(audio_path): a dict with "text", or an exception
Raised == [raised |-> TRUE]
Transcription(text) == [raised |-> FALSE, text |-> text]
Transcriptions ==
    {Raised} \cup {Transcription(t) : t \in {<<>>, <<" ">> \o Words(MinWords - 1),
                                              Words(MinWords)}}

\* emotion_classifier(audio_path): a ranked list of {label, score}
EmotionLabels == {"angry", "happy"}
EmotionScoreValues == {0, 3498, 3500, 3502, 5000}
EmotionScore == [label : EmotionLabels, score : EmotionScoreValues]
RECURSIVE SeqsUpTo(_, _)
SeqsUpTo(S, n) ==
    IF n = 0 THEN {<<>>}
    ELSE LET shorter == SeqsUpTo(S, n - 1)
         IN  shorter \cup {Append(s, x) : s \in shorter, x \in S}
FourEmotions ==
    << [label |-> "sad", score |-> 2000], [label |-> "fear", score |-> 1500],
       [label |-> "happy", score |-> 1000], [label |-> "angry", score |-> 500] >>
Classification(emotions) == [raised |-> FALSE, emotions |-> emotions]
Classifications ==
    {Raised} \cup {Classification(e) : e \in SeqsUpTo(EmotionScore, MaxEmotions)
                                              \cup {FourEmotions}}

\* What librosa returns inside analyze_speech_patterns: len(intervals), the
\* number of positive entries of pitches and their standard deviation (tenths),
\* np.mean(rms) (thousandths) and len(y) / sr (tenths of a second).
LibrosaOutput ==
    [intervals : {0, 1, 2, 9, 17}, voiced : {0, 4}, pitch_std : {499, 500},
     avg_energy : {20}, duration : {0, 100}]
Extraction(lib) == [raised |-> FALSE, lib |-> lib]
Extractions == {Raised} \cup {Extraction(l) : l \in LibrosaOutput}

--------------------------------------------------------------------------
(* analyze_speech_patterns and the scoring of analyze_speech *)

analyze_speech_patterns(lib) ==
    [ num_pauses       |-> lib.intervals - 1,
      pitch_variation  |-> IF lib.voiced > 0 THEN lib.pitch_std ELSE 0,
      energy_level     |-> lib.avg_energy,
      duration_seconds |-> lib.duration ]

NegativeLabels == {"angry", "sad", "fear"}

RECURSIVE emotion_stress(_)
emotion_stress(emotions) ==
    IF emotions = <<>> THEN 0
    ELSE (IF emotions[1].label \in NegativeLabels THEN emotions[1].score ELSE 0)
         + emotion_stress(Tail(emotions))

pause_factor(audio_features) ==
    Min(audio_features.num_pauses * PauseWeight, PauseCap)

monotone_factor(audio_features) ==
    IF audio_features.pitch_variation < MonotoneThreshold * 10
    THEN MonotoneBonus ELSE 0

\* stress_score of line 103, in ScoreUnit units
stress_score(emotions, audio_features) ==
    Min(emotion_stress(emotions)
          + pause_factor(audio_features) * ScoreUnit
          + monotone_factor(audio_features) * ScoreUnit,
        ScoreCap * ScoreUnit)

\* line 113 with >= in place of >
high_stress_inclusive(score) == score >= HighStress * ScoreUnit

\* line 113
high_stress(score) == score > HighStress * ScoreUnit

\* lines 106-114; the strings are the code's without their warning sign
warnings(transcript_text, audio_features, score) ==
    (IF audio_features.num_pauses > FrequentPauses
        THEN <<"Frequent pauses detected">> ELSE <<>>)
    \o (IF audio_features.pitch_variation < MonotoneThreshold * 10
        THEN <<"Monotone speech pattern">> ELSE <<>>)
    \o (IF WordCount(transcript_text) < MinWords
        THEN <<"Reduced verbal output">> ELSE <<>>)
    \o (IF high_stress(score)
        THEN <<"High stress levels">> ELSE <<>>)

\* round(x, 1) of a raw value in ScoreUnit units: tenths
Round1(x) == RoundHalfEven(x, ScoreUnit \div 10)

\* the dict of lines 117-125 (duration_seconds # 0)
build_analysis(transcript_text, emotions, audio_features, now) ==
    LET score == stress_score(emotions, audio_features)
    IN  [ timestamp    |-> now,
          transcript   |-> transcript_text,
          word_count   |-> WordCount(transcript_text),
          emotions     |-> FirstN(emotions, TopEmotions),
          stress_score |-> Round1(score),
          speech_rate  |-> RoundHalfEven(WordCount(transcript_text) * 60 * 100,
                                         audio_features.duration_seconds),
          warnings     |-> warnings(transcript_text, audio_features, score) ]

\* Lines 76-125: the three collaborator calls and the scoring.  The result
\* names the exception that ended the run, or "success" with the analysis.
Failure(exception) == [status |-> exception, analysis |-> <<>>]
run_pipeline(transcription, classification, extraction, now) ==
    IF transcription.raised THEN Failure("TranscriptionError")
    ELSE IF classification.raised THEN Failure("ClassifierError")
    ELSE IF extraction.raised THEN Failure("LoadError")
    ELSE LET audio_features == analyze_speech_patterns(extraction.lib)
         IN  IF audio_features.duration_seconds = 0
             THEN Failure("ZeroDivisionError")
             ELSE [status   |-> "success",
                   analysis |-> <<build_analysis(transcription.text,
                                                 classification.emotions,
                                                 audio_features, now)>>]

--------------------------------------------------------------------------
(* user_data.json *)

EmptyDict == [u \in {} |-> <<>>]

\* lines 128-133
load_data(file_exists, stored) == IF file_exists THEN stored ELSE EmptyDict

\* line 138 as data[user_id] = [analysis]
save_analysis_overwrite(loaded, u, analysis) ==
    LET with_key == IF u \in DOMAIN loaded THEN loaded ELSE loaded @@ (u :> <<>>)
    IN  [with_key EXCEPT ![u] = <<analysis>>]

\* line 138 moved into an else branch of the test of line 135
save_analysis_else_append(loaded, u, analysis) ==
    IF u \in DOMAIN loaded
    THEN [loaded EXCEPT ![u] = Append(@, analysis)]
    ELSE loaded @@ (u :> <<>>)

\* lines 135-138: the dict written back by json.dump at line 141
save_analysis(loaded, u, analysis) ==
    LET with_key == IF u \in DOMAIN loaded THEN loaded ELSE loaded @@ (u :> <<>>)
    IN  [with_key EXCEPT ![u] = Append(@, analysis)]

\* the save of lines 127-141 run although the pipeline raised: the record
\* appended is the part of the analysis built so far
persist_partial(result, file_exists, stored, u) ==
    IF result.status = "success"
    THEN [file_exists |-> TRUE,
          stored |-> save_analysis(load_data(file_exists, stored), u,
                                   result.analysis[1])]
    ELSE [file_exists |-> TRUE,
          stored |-> save_analysis(load_data(file_exists, stored), u,
                                   [status |-> result.status])]

\* user_data.json after the handler: lines 127-141 are reached only when
\* lines 76-125 raised nothing
persist(result, file_exists, stored, u) ==
    IF result.status = "success"
    THEN [file_exists |-> TRUE,
          stored |-> save_analysis(load_data(file_exists, stored), u,
                                   result.analysis[1])]
    ELSE [file_exists |-> file_exists, stored |-> stored]

--------------------------------------------------------------------------
(* get_trends *)

\* lines 177 and 179 with <= and >= in place of < and >
trend_not_strict(user_recordings) ==
    IF Len(user_recordings) >= TrendWindow
    THEN LET recent_stress ==
                 [i \in 1..TrendWindow |->
                     LastN(user_recordings, TrendWindow)[i].stress_score]
         IN  IF \A i \in 1..(Len(recent_stress) - 1) :
                    recent_stress[i] <= recent_stress[i+1]
             THEN "increasing"
             ELSE IF \A i \in 1..(Len(recent_stress) - 1) :
                    recent_stress[i] >= recent_stress[i+1]
             THEN "decreasing"
             ELSE "stable"
    ELSE "insufficient_data"

\* lines 174-184
trend(user_recordings) ==
    IF Len(user_recordings) >= TrendWindow
    THEN LET recent_stress ==
                 [i \in 1..TrendWindow |->
                     LastN(user_recordings, TrendWindow)[i].stress_score]
         IN  IF \A i \in 1..(Len(recent_stress) - 1) :
                    recent_stress[i] < recent_stress[i+1]
             THEN "increasing"
             ELSE IF \A i \in 1..(Len(recent_stress) - 1) :
                    recent_stress[i] > recent_stress[i+1]
             THEN "decreasing"
             ELSE "stable"
    ELSE "insufficient_data"

\* lines 157-193: the response, or the exception the handler raises
get_trends_result(file_exists, stored, u) ==
    IF ~file_exists
    THEN [status |-> "no_data", message |-> "No recordings yet"]
    ELSE IF u \notin DOMAIN stored
    THEN [status |-> "no_data", message |-> "No recordings for this user"]
    ELSE LET user_recordings == stored[u]
             recent == LastN(user_recordings, RecentWindow)
         IN  IF Len(recent) = 0
             THEN [status |-> "ZeroDivisionError"]
             ELSE [ total_recordings    |-> Len(user_recordings),
                    average_stress      |->
                        RoundHalfEven(SumOver(recent, "stress_score"), Len(recent)),
                    average_speech_rate |->
                        RoundHalfEven(SumOver(recent, "speech_rate"), Len(recent)),
                    trend               |-> trend(user_recordings),
                    recent_recordings   |-> recent,
                    all_recordings      |-> user_recordings ]

NoResponse == [status |-> "none"]

\* get_trends writing the records it averaged back as the user's history
get_trends_trimming(u) ==
    /\ trend_result' =
          [trend_result EXCEPT ![u] = get_trends_result(data_file_exists, data, u)]
    /\ data' = IF data_file_exists /\ u \in DOMAIN data
               THEN [data EXCEPT ![u] = LastN(@, 1)] ELSE data
    /\ UNCHANGED <<data_file_exists, temp_path, inodes, pc, user_id, audio,
                   f, analysed, response, clock, score_in, score_out>>

get_trends(u) ==
    /\ trend_result' =
          [trend_result EXCEPT ![u] = get_trends_result(data_file_exists, data, u)]
    /\ UNCHANGED <<data_file_exists, data, temp_path, inodes, pc, user_id, audio,
                   f, analysed, response, clock, score_in, score_out>>

--------------------------------------------------------------------------
(* analyze_speech *)

\* f.write(bytes) through a handle opened with "wb": the bytes land at
\* offset 0 of the inode, whatever is there beyond them stays
write_file(content, bytes) ==
    bytes \o SubSeq(content, Len(bytes) + 1, Len(content))

\* the handles other requests hold open on inode i
open_elsewhere(i, r) == \E q \in Requests \ {r} : pc[q] = "await_read" /\ f[q] = i

\* leaving the with block closes the handle: an inode with no directory
\* entry and no other open handle is freed
close_file(files, i, r) ==
    IF (\E u \in Users : temp_path[u] = i) \/ open_elsewhere(i, r)
    THEN files ELSE [files EXCEPT ![i] = <<>>]

\* os.remove(audio_path): the entry goes, the inode with its last handle
remove_file(files, i, r) ==
    IF open_elsewhere(i, r) THEN files ELSE [files EXCEPT ![i] = <<>>]

\* collaborator outputs drawn by the server specification
ServerTranscriptions == {Raised, Transcription(Words(2))}
ServerClassifications ==
    {Raised, Classification(<<[label |-> "angry", score |-> 3502]>>)}
ServerExtractions ==
    {Raised} \cup
    {Extraction([intervals |-> 1, voiced |-> 4, pitch_std |-> 500,
                 avg_energy |-> 20, duration |-> d]) : d \in {0, 100}}

\* lines 69-74, up to the await of audio.read(): the temp file is created or
\* truncated and the handle stays open across the suspension
analyze_speech_open(r, u, n) ==
    /\ pc[r] = "idle"
    /\ pc' = [pc EXCEPT ![r] = "await_read"]
    /\ user_id' = [user_id EXCEPT ![r] = u]
    /\ audio' = [audio EXCEPT ![r] = [i \in 1..n |-> r]]
    /\ IF temp_path[u] = 0
       THEN /\ inodes' = Append(inodes, <<>>)
            /\ temp_path' = [temp_path EXCEPT ![u] = Len(inodes) + 1]
            /\ f' = [f EXCEPT ![r] = Len(inodes) + 1]
       ELSE /\ inodes' = [inodes EXCEPT ![temp_path[u]] = <<>>]
            /\ temp_path' = temp_path
            /\ f' = [f EXCEPT ![r] = temp_path[u]]
    /\ UNCHANGED <<data_file_exists, data, analysed, response, clock,
                   trend_result, score_in, score_out>>

\* lines 74-151 after the await: write and close the temp file, run the
\* pipeline on audio_path, append to user_data.json, remove the temp file.
\* An exception leaves the handler where it is raised.
analyze_speech_resume(r, transcription, classification, extraction) ==
    /\ pc[r] = "await_read"
    /\ LET u == user_id[r]
           written == close_file([inodes EXCEPT ![f[r]] = write_file(@, audio[r])],
                                 f[r], r)
           present == temp_path[u] # 0
           content == IF present THEN written[temp_path[u]] ELSE <<>>
           result ==
               IF ~present THEN Failure("FileNotFoundError")
               ELSE IF content = <<>> THEN Failure("DecodeError")
               ELSE run_pipeline(transcription, classification, extraction, clock + 1)
           after == persist(result, data_file_exists, data, u)
       IN  /\ analysed' = [analysed EXCEPT ![r] = content]
           /\ response' = [response EXCEPT ![r] = result]
           /\ data' = after.stored
           /\ data_file_exists' = after.file_exists
           /\ IF result.status = "success"
              THEN /\ temp_path' = [temp_path EXCEPT ![u] = 0]
                   /\ inodes' = remove_file(written, temp_path[u], r)
                   /\ clock' = clock + 1
              ELSE /\ inodes' = written
                   /\ UNCHANGED <<temp_path, clock>>
    /\ pc' = [pc EXCEPT ![r] = "returned"]
    /\ f' = [f EXCEPT ![r] = 0]
    /\ UNCHANGED <<user_id, audio, trend_result, score_in, score_out>>

--------------------------------------------------------------------------
(* The server: concurrent requests on one event loop *)

NoScoreIn == [transcription |-> Raised, classification |-> Raised,
              extraction |-> Raised]

InitServer ==
    /\ temp_path = [u \in Users |-> 0]
    /\ inodes = <<>>
    /\ pc = [r \in Requests |-> "idle"]
    /\ user_id = [r \in Requests |-> ""]
    /\ audio = [r \in Requests |-> <<>>]
    /\ f = [r \in Requests |-> 0]
    /\ analysed = [r \in Requests |-> <<>>]
    /\ response = [r \in Requests |-> NoResponse]
    /\ clock = 0
    /\ trend_result = [u \in Users |-> NoResponse]

Init ==
    /\ InitServer
    /\ data_file_exists = FALSE
    /\ data = EmptyDict
    /\ score_in = NoScoreIn
    /\ score_out = <<>>

Next ==
    \/ \E r \in Requests, u \in Users, n \in AudioLens :
          analyze_speech_open(r, u, n)
    \/ \E r \in Requests, t \in ServerTranscriptions,
          e \in ServerClassifications, x \in ServerExtractions :
          analyze_speech_resume(r, t, e, x)
    \/ \E u \in Users : get_trends(u)

Spec == Init /\ [][Next]_vars

--------------------------------------------------------------------------
(* One scoring run: the collaborator outputs are drawn from the wide sets  *)
(* and lines 76-125 are applied to them.                                   *)

InitScoring ==
    /\ InitServer
    /\ data_file_exists = FALSE
    /\ data = EmptyDict
    /\ score_in \in [transcription : Transcriptions,
                      classification : Classifications,
                      extraction : Extractions]
    /\ score_out = <<>>

score_request ==
    /\ score_out = <<>>
    /\ score_out' =
          << [ audio_features |->
                 IF \/ score_in.transcription.raised
                    \/ score_in.classification.raised
                    \/ score_in.extraction.raised
                 THEN <<>>
                 ELSE <<analyze_speech_patterns(score_in.extraction.lib)>>,
               result |-> run_pipeline(score_in.transcription,
                                       score_in.classification,
                                       score_in.extraction, clock + 1) ] >>
    /\ UNCHANGED <<data_file_exists, data, temp_path, inodes, pc, user_id, audio,
                   f, analysed, response, clock, trend_result, score_in>>

SpecScoring == InitScoring /\ [][score_request]_vars

--------------------------------------------------------------------------
(* Trend queries over stored histories: user_data.json holds a history     *)
(* that earlier analyses wrote, and get_trends is applied to it.           *)

\* analyses with stress scores 10.0, 20.0, 30.0 and speech rates 60.0, 100.0
Features(intervals, duration) ==
    analyze_speech_patterns([intervals |-> intervals, voiced |-> 4,
                             pitch_std |-> 500, avg_energy |-> 20,
                             duration |-> duration])
StoredAnalyses ==
    { build_analysis(Words(10), <<>>, Features(3, 100), 0),
      build_analysis(Words(10), <<>>, Features(5, 100), 0),
      build_analysis(Words(10), <<>>, Features(5, 60), 0),
      build_analysis(Words(10), <<>>, Features(7, 100), 0) }

\* the analyses in append order, stamped by the clock
Stamped(history) ==
    [i \in 1..Len(history) |-> [history[i] EXCEPT !.timestamp = i]]

StoredHistories ==
    {Stamped(h) : h \in SeqsUpTo(StoredAnalyses, MaxHistory) \ {<<>>}}

InitTrends ==
    /\ InitServer
    /\ \/ data_file_exists = FALSE /\ data = EmptyDict
       \/ /\ data_file_exists = TRUE
          /\ data \in {("u1" :> h) : h \in StoredHistories}
    /\ score_in = NoScoreIn
    /\ score_out = <<>>

NextTrends == \E u \in Users : get_trends(u)

SpecTrends == InitTrends /\ [][NextTrends]_vars

--------------------------------------------------------------------------
(* Properties of one scoring run (SpecScoring) *)

InSeq(x, s) == \E i \in 1..Len(s) : s[i] = x

Scored == score_out # <<>> /\ score_out[1].result.status = "success"
ScoredAnalysis == score_out[1].result.analysis[1]
ScoredFeatures == score_out[1].audio_features[1]
ScoredRaw == stress_score(score_in.classification.emotions, ScoredFeatures)

\* C1: every analysis record has 0 <= stress_score <= 100, for every
\* classifier output and every extracted num_pauses and pitch_variation,
\* a recording with zero non-silent intervals included.
C1_StressScoreInRange ==
    Scored => /\ 0 <= ScoredAnalysis.stress_score
              /\ ScoredAnalysis.stress_score <= ScoreCap * 10

\* C9: num_pauses is never negative: it is the number of non-silent
\* intervals minus 1, floored at 0 when no interval is found.
C9_NumPausesFloored ==
    (score_out # <<>> /\ score_out[1].audio_features # <<>>) =>
        /\ ScoredFeatures.num_pauses >= 0
        /\ ScoredFeatures.num_pauses =
              (IF score_in.extraction.lib.intervals >= 1
               THEN score_in.extraction.lib.intervals - 1 ELSE 0)

\* C10 as stated: the high-stress warning is in the record iff the record's
\* own (rounded) stress_score is greater than 70.
C10_WarningIffStoredScoreAbove70 ==
    Scored => (InSeq("High stress levels", ScoredAnalysis.warnings)
                  <=> ScoredAnalysis.stress_score > HighStress * 10)

\* C10 amended: the high-stress warning is in the record iff the unrounded
\* value min(emotion_stress + pause_factor + monotone_factor, 100) is
\* greater than 70; so a record whose stored stress_score is above 70.0
\* carries it and a record that carries it has a stored score of at least
\* 70.0.
C10_WarningIffRawScoreAbove70 ==
    Scored =>
        /\ InSeq("High stress levels", ScoredAnalysis.warnings)
              <=> ScoredRaw > HighStress * ScoreUnit
        /\ ScoredAnalysis.stress_score > HighStress * 10
              => InSeq("High stress levels", ScoredAnalysis.warnings)
        /\ InSeq("High stress levels", ScoredAnalysis.warnings)
              => ScoredAnalysis.stress_score >= HighStress * 10

\* a record stored with stress_score 70.0 that carries the warning
C10_Witness ==
    /\ Scored
    /\ ScoredAnalysis.stress_score = HighStress * 10
    /\ InSeq("High stress levels", ScoredAnalysis.warnings)

--------------------------------------------------------------------------
(* Properties of get_trends over stored histories (SpecTrends) *)

Answered(u) == "trend" \in DOMAIN trend_result[u]

\* C5: the trend is "insufficient_data" iff the history has fewer than 3
\* records; otherwise "increasing" iff the last 3 stress scores are
\* strictly increasing, "decreasing" iff they are strictly decreasing and
\* "stable" in every other case; older records do not enter the verdict.
C5_TrendClassification ==
    \A u \in Users : Answered(u) =>
        LET h == data[u]
            n == Len(h)
            t == trend_result[u].trend
            a == h[n - 2].stress_score
            b == h[n - 1].stress_score
            c == h[n].stress_score
        IN  /\ t \in {"insufficient_data", "increasing", "decreasing", "stable"}
            /\ t = "insufficient_data" <=> n < 3
            /\ n >= 3 =>
                  /\ t = "increasing" <=> (a < b /\ b < c)
                  /\ t = "decreasing" <=> (a > b /\ b > c)
                  /\ t = "stable" <=> ~(a < b /\ b < c) /\ ~(a > b /\ b > c)

\* a history whose last 3 scores rise after an older, higher score
C5_Witness ==
    \E u \in Users :
        /\ Answered(u)
        /\ trend_result[u].trend = "increasing"
        /\ Len(data[u]) = 4
        /\ data[u][1].stress_score > data[u][2].stress_score

\* C6: with n >= 1 stored records, average_stress and average_speech_rate
\* are the arithmetic means (to the nearest tenth) over exactly the last
\* min(5, n) records, and recent_recordings is exactly those records.
C6_AveragesOverLastFive ==
    \A u \in Users : Answered(u) =>
        LET h == data[u]
            n == Len(h)
            k == IF n < 5 THEN n ELSE 5
            window == [i \in 1..k |-> h[n - k + i]]
            Near(avg, field) ==
                LET d == avg * k - SumOver(window, field)
                IN  2 * d <= k /\ -2 * d <= k
        IN  /\ n >= 1
            /\ trend_result[u].total_recordings = n
            /\ trend_result[u].recent_recordings = window
            /\ Near(trend_result[u].average_stress, "stress_score")
            /\ Near(trend_result[u].average_speech_rate, "speech_rate")

\* six records, the oldest with another stress score and speech rate than
\* the five that are averaged
C6_Witness ==
    \E u \in Users :
        /\ Answered(u)
        /\ Len(data[u]) = 6
        /\ data[u][1].stress_score = 300 /\ data[u][1].speech_rate = 600
        /\ \A i \in 2..6 : /\ data[u][i].stress_score = 200
                            /\ data[u][i].speech_rate = 1000
        /\ trend_result[u].average_stress = 200
        /\ trend_result[u].average_speech_rate = 1000

--------------------------------------------------------------------------
(* Properties of the server (Spec) *)

IsPrefix(s, t) == Len(s) <= Len(t) /\ SubSeq(t, 1, Len(s)) = s

Succeeded(r) == pc[r] = "returned" /\ response[r].status = "success"
History(u) == IF data_file_exists /\ u \in DOMAIN data THEN data[u] ELSE <<>>

\* every stored history is kept as a prefix by the step
HistoriesKept ==
    /\ data_file_exists => data_file_exists'
    /\ \A u \in DOMAIN data :
          u \in DOMAIN data' /\ IsPrefix(data[u], data'[u])

\* the step that completes a request with success appends the analysis it
\* returns at the end of its user's history
CompletionAppends ==
    \A r \in Requests :
        (pc[r] = "await_read" /\ pc'[r] = "returned"
            /\ response'[r].status = "success")
        => /\ data_file_exists'
           /\ user_id[r] \in DOMAIN data'
           /\ data'[user_id[r]] =
                 Append(History(user_id[r]), response'[r].analysis[1])

\* the history of u holds exactly the analyses returned to the successful
\* requests of u
ReadBack ==
    \A u \in Users :
        LET h == History(u)
            done == {r \in Requests : Succeeded(r) /\ user_id[r] = u}
        IN  /\ Len(h) = Cardinality(done)
            /\ \A r \in done : InSeq(response[r].analysis[1], h)
            /\ \A i \in 1..Len(h) :
                  \E r \in done : response[r].analysis[1] = h[i]

\* C2: the history is append-only under every interleaving of
\* analyze-speech and get-trends requests, for the same or different users:
\* a record once appended stays in its user's sequence, unmodified and in
\* the same order, and N completed analyses are read back as those N records.
C2_AppendOnly == [][HistoriesKept /\ CompletionAppends]_vars /\ []ReadBack

\* two analyses completed for one user and one for nobody else
C2_Witness ==
    \E u \in Users :
        /\ Len(History(u)) = 2
        /\ \A r \in Requests : Succeeded(r) /\ user_id[r] = u

\* C3: concurrent requests share nothing but the history store: every
\* request analyses its own upload and fails only where it would fail alone.
C3_RequestsIndependent ==
    \A r \in Requests : pc[r] = "returned" =>
        /\ response[r].status \notin {"FileNotFoundError", "DecodeError"}
        /\ analysed[r] = audio[r]

\* C4: a request that fails in transcription, classification, feature
\* extraction or the speech-rate division leaves the stored history of
\* every user as it was.
C4_FailureLeavesHistory ==
    [][\A r \in Requests :
          (pc[r] = "await_read" /\ pc'[r] = "returned"
              /\ response'[r].status # "success")
          => (data' = data /\ data_file_exists' = data_file_exists)]_vars

\* a request failed in the speech-rate division while a history was stored
C4_Witness ==
    /\ data_file_exists
    /\ \E u \in DOMAIN data : Len(data[u]) = 1
    /\ \E r \in Requests :
          /\ pc[r] = "returned"
          /\ response[r].status = "ZeroDivisionError"

NoData(u) ==
    /\ "status" \in DOMAIN trend_result[u]
    /\ trend_result[u].status \in {"none", "no_data"}

\* C7: every user key of the store maps to a non-empty sequence, so
\* get-trends never divides by zero, and it answers "no data" for a user
\* who is unknown or has no records.
C7_NoDataNeverFails ==
    /\ \A u \in DOMAIN data : Len(data[u]) >= 1
    /\ \A u \in Users :
          /\ trend_result[u] # [status |-> "ZeroDivisionError"]
          /\ History(u) = <<>> => NoData(u)
          /\ Answered(u) => trend_result[u].total_recordings >= 1

\* a user without records was answered "no data" while the store holds
\* the records of another user
C7_Witness ==
    \E u \in Users :
        /\ data_file_exists
        /\ u \notin DOMAIN data
        /\ trend_result[u] = [status |-> "no_data",
                              message |-> "No recordings for this user"]

\* the last answer to u still describes the store
Current(u) ==
    \/ Answered(u) /\ trend_result[u].all_recordings = History(u)
    \/ /\ trend_result[u] = [status |-> "no_data", message |-> "No recordings yet"]
       /\ ~data_file_exists
    \/ /\ trend_result[u] = [status |-> "no_data",
                             message |-> "No recordings for this user"]
       /\ data_file_exists /\ u \notin DOMAIN data

\* C8: get-trends leaves the store unchanged for every user, and asked
\* again with no append in between it returns the same result.
C8_GetTrendsReadOnly ==
    [][\A u \in Users : get_trends(u) =>
          /\ data' = data /\ data_file_exists' = data_file_exists
          /\ Current(u) => trend_result'[u] = trend_result[u]]_vars

\* a user with two records was answered with both
C8_Witness ==
    \E u \in Users :
        /\ Answered(u)
        /\ trend_result[u].total_recordings = 2
        /\ trend_result[u].all_recordings = History(u)

==========================================================================
